---------------------------- MODULE Spec2Model ----------------------------
(***************************************************************************)
(* Route construction and improvement engine of the VRP demo (main.js):    *)
(* nearestNeighborVRP, savingsAlgorithmVRP, twoOptImprovement and          *)
(* calculateRouteDistance, over the globals destinations, numVehicles,     *)
(* vehicleCapacity and distanceMatrix.                                     *)
(*                                                                         *)
(* Conventions.  Routes hold matrix indices as in the source: 0 is the     *)
(* depot, k is the customer at destinations[k-1].  TLA+ sequences are      *)
(* 1-based, so the JS element s[k] is s[k+1] here; the loop counters i, j  *)
(* and v keep their JS (0-based) values.  A destination object is a record *)
(* whose field ref stands for the object's identity (JS compares objects   *)
(* by reference in indexOf).  Infinity is the value Infinity below, above  *)
(* every distance of the model.                                            *)
(***************************************************************************)
EXTENDS Integers, Sequences, FiniteSets, TLC

(* ------------------------------ bounds --------------------------------- *)
\* largest number of customers in a loaded problem
MaxCustomers == 3
\* largest demand of one customer (demands are 1..MaxDemand)
MaxDemand == 2
\* largest vehicleCapacity (capacities are 1..MaxCapacity)
MaxCapacity == 3
\* largest numVehicles (fleets are 1..MaxVehicles)
MaxVehicles == 3
\* largest single distance returned by the matrix service (0..MaxDist)
MaxDist == 3
\* number of distinct matrix responses sampled per problem size
NumMatrices == 24
\* largest number of customers in a route handed to twoOptImprovement
MaxRouteCustomers == 4
\* largest number of customers in the problems handed to evaluateSolution
MaxEvalCustomers == 2
\* largest number of routes in a solution handed to evaluateSolution
MaxEvalRoutes == 2
\* number of distinct matrix responses sampled for evaluateSolution
NumEvalMatrices == 4
\* largest fuelConsumption of a case file (values are 0..MaxFuel, or absent)
MaxFuel == 2
\* vehicleColors.length (main.js:15-26)
\* largest number of solutions handed to the best-solution selection
MaxSolutions == 3
\* largest length of an index list handed to calculateRouteDistance
MaxIndexListLen == 4

\* fetchWithRetry: the largest maxAttempts and the largest Retry-After, in
\* seconds.
MaxAttempts == 3
MaxRetryAfter == 2

\* A session: the customers of a case file, the largest demand of a customer
\* (and the largest capacity of a vehicle), the largest fleet, the files loaded after
\* the first, the calls of solveVRP.
SessionCustomers == 2
MaxSessionDemand == 2
MaxSessionVehicles == 2
MaxLoads == 1
MaxSolves == 2
NumVehicleColors == 10

VARIABLES
    pc,              \* position of the running function
    destinations,    \* global: sequence of customer objects
    numVehicles,     \* global
    vehicleCapacity, \* global
    distanceMatrix,  \* global: [0..N -> [0..N -> Nat]]
    vehicleRoutes,   \* nearestNeighborVRP: routes closed so far
    unvisited,       \* nearestNeighborVRP: customers not yet routed
    v,               \* nearestNeighborVRP: for-loop counter
    route,           \* nearestNeighborVRP: route under construction;
                     \* twoOptImprovement: the parameter, reassigned per pass
    currentPos,      \* nearestNeighborVRP
    currentLoad,     \* nearestNeighborVRP
    savings,         \* savingsAlgorithmVRP: the sorted savings list
    routes,          \* savingsAlgorithmVRP: records {route, load, ends}
    sIdx,            \* savingsAlgorithmVRP: 0-based position of the for-of
    bestRoute,       \* twoOptImprovement
    bestDistance,    \* twoOptImprovement
    improved,        \* twoOptImprovement
    i,               \* twoOptImprovement: outer loop counter
    j,               \* twoOptImprovement: inner loop counter
    inputRoute,      \* history: the argument of the first twoOptImprovement call
    firstResult,     \* history: what the first call returned (<<>> before)
    timeMatrix,      \* global: data.durations
    fuelConsumption, \* global: a JavaScript value (number or undefined)
    useNN,           \* solveVRP: checkbox useNearestNeighbor
    useSavings,      \* solveVRP: checkbox useSavings
    use2Opt,         \* solveVRP: checkbox use2Opt
    alerts,          \* the messages shown by alert(), in order
    stage,           \* solveVRP: the block running ("nn" or "savings")
    solRoutes,       \* solveVRP: the block's local `routes`
    mapIdx,          \* solveVRP: 0-based position of routes.map
    colorIndex,      \* solveVRP
    results,         \* solveVRP: the evaluated solutions
    reduceBest,      \* reduce: the accumulator `best`
    cur,             \* reduce: 0-based position of `current`
    bestResult,      \* displayResultsInNewTab / exportResults: <<>> or <<solution>>
    distI,           \* calculateRouteDistance: loop counter
    distance,        \* calculateRouteDistance: the running sum, a JavaScript value
    maxAttempts,     \* fetchWithRetry: the parameter
    attempt,         \* fetchWithRetry
    delay,           \* fetchWithRetry: the backoff, in ms
    fetchCalls,      \* history: number of calls of fetch
    sleeps,          \* history: the waits of sleep(), in ms, in order
    lastResponse,    \* history: how the last call of fetch ended
    requestFor,      \* calculateDistanceMatrix: the destinations whose locations
                     \* were sent with the pending request
    matrixFor,       \* history: the destinations distanceMatrix was computed for
    validatedFor,    \* history: the destinations validateProblem last accepted
    loads,           \* history: number of case files loaded
    solves           \* history: number of calls of solveVRP

globals == <<destinations, numVehicles, vehicleCapacity, distanceMatrix>>
nnVars == <<vehicleRoutes, unvisited, v, currentPos, currentLoad>>
savVars == <<savings, routes, sIdx>>
optVars == <<bestRoute, bestDistance, improved, i, j, inputRoute, firstResult>>
evalGlobals == <<timeMatrix, fuelConsumption>>
solveVars == <<useNN, useSavings, use2Opt, alerts, stage, solRoutes, mapIdx,
               colorIndex, results>>
bestVars == <<reduceBest, cur, bestResult>>
distVars == <<distI, distance>>
fetchVars == <<maxAttempts, attempt, delay, fetchCalls, sleeps, lastResponse>>
sessionVars == <<requestFor, matrixFor, validatedFor, loads, solves>>
vars == <<pc, globals, evalGlobals, route, nnVars, savVars, optVars, solveVars,
          bestVars, distVars, fetchVars, sessionVars>>

(* ------------------------------ inputs --------------------------------- *)
\* The value of `Infinity` (main.js:291): larger than any distance compared.
Infinity == MaxDist + 1

\* JavaScript values that need not be numbers: a number, NaN or undefined.
Num(n) == [kind |-> "number", val |-> n]
NaN == [kind |-> "NaN", val |-> 0]
Undefined == [kind |-> "undefined", val |-> 0]

\* a + b on such values (main.js:503, 611): NaN unless both are numbers.
JsPlus(a, b) ==
    IF a.kind = "number" /\ b.kind = "number" THEN Num(a.val + b.val) ELSE NaN

\* a * b on such values (main.js:520): NaN unless both are numbers.
JsTimes(a, b) ==
    IF a.kind = "number" /\ b.kind = "number" THEN Num(a.val * b.val) ELSE NaN

\* One entry of the m-th sampled response of the matrix service for nodes
\* i, j.  Even samples are symmetric, odd samples asymmetric; the diagonal is
\* 0; entries range over 0..MaxDist.
MatrixEntry(m, a, b) ==
    LET lo == IF m % 2 = 0 /\ a > b THEN b ELSE a
        hi == IF m % 2 = 0 /\ a > b THEN a ELSE b
    IN  IF a = b THEN 0
        ELSE ((31 * m * m + m * (17 * lo + 29 * hi + 3) + 13 * lo * lo
               + 7 * hi + 5 * lo * hi) % 101) % (MaxDist + 1)

\* data.distances for n customers (main.js:251): an (n+1) x (n+1) matrix.
MatrixResponse(m, n) ==
    [a \in 0..n |-> [b \in 0..n |-> MatrixEntry(m, a, b)]]

\* The destinations array of a validated case file (main.js:124-146): every
\* demand is a positive number; each object has its own identity.
DestinationsOf(demands) ==
    [k \in 1..Len(demands) |-> [ref |-> k, demand |-> demands[k]]]

DemandLists ==
    UNION {[1..n -> 1..MaxDemand] : n \in 1..MaxCustomers}

(* ------------------------------ helpers -------------------------------- *)
\* Array.prototype.indexOf (main.js:295): 0-based position of the first
\* element identical to x, or -1.
IndexOf(arr, x) ==
    IF \E k \in 1..Len(arr) : arr[k] = x
    THEN (CHOOSE k \in 1..Len(arr) :
              arr[k] = x /\ \A h \in 1..(k - 1) : arr[h] # x) - 1
    ELSE -1

\* Faulty variant of SpliceOut: the last element is removed instead of the one at idx.
SpliceOutLast(arr, idx) ==
    SubSeq(arr, 1, Len(arr) - 1)

\* arr.splice(idx, 1) (main.js:309), idx 0-based: the array without that
\* element.
SpliceOut(arr, idx) ==
    [k \in 1..(Len(arr) - 1) |-> IF k <= idx THEN arr[k] ELSE arr[k + 1]]

(* ------------------------ nearestNeighborVRP --------------------------- *)
\* Faulty variant of ScanNearest: a candidate must leave spare capacity (strict
\* comparison), so a vehicle is never filled exactly.
RECURSIVE ScanNearestStrict(_, _, _, _, _)
ScanNearestStrict(unv, pos, load, i0, best) ==
    IF i0 >= Len(unv) THEN best.nearestIdx
    ELSE LET destIdx == IndexOf(destinations, unv[i0 + 1]) + 1
             dist == distanceMatrix[pos][destIdx]
         IN  IF dist < best.nearestDist
                /\ load + unv[i0 + 1].demand < vehicleCapacity
             THEN ScanNearestStrict(unv, pos, load, i0 + 1,
                                    [nearestIdx |-> i0, nearestDist |-> dist])
             ELSE ScanNearestStrict(unv, pos, load, i0 + 1, best)

\* Faulty variant of ScanNearest: a candidate that ties with the nearest so far
\* replaces it, so the last of equally near customers wins.
RECURSIVE ScanNearestLastTie(_, _, _, _, _)
ScanNearestLastTie(unv, pos, load, i0, best) ==
    IF i0 >= Len(unv) THEN best.nearestIdx
    ELSE LET destIdx == IndexOf(destinations, unv[i0 + 1]) + 1
             dist == distanceMatrix[pos][destIdx]
         IN  IF dist <= best.nearestDist
                /\ load + unv[i0 + 1].demand <= vehicleCapacity
             THEN ScanNearestLastTie(unv, pos, load, i0 + 1,
                                     [nearestIdx |-> i0, nearestDist |-> dist])
             ELSE ScanNearestLastTie(unv, pos, load, i0 + 1, best)

\* The scan of main.js:290-305 from position i0 (0-based) of unvisited, with
\* the running nearestIdx / nearestDist: returns the final nearestIdx
\* (0-based, -1 when no candidate fits).
RECURSIVE ScanNearest(_, _, _, _, _)
ScanNearest(unv, pos, load, i0, best) ==
    IF i0 >= Len(unv) THEN best.nearestIdx
    ELSE LET destIdx == IndexOf(destinations, unv[i0 + 1]) + 1
             dist == distanceMatrix[pos][destIdx]
         IN  IF dist < best.nearestDist
                /\ load + unv[i0 + 1].demand <= vehicleCapacity
             THEN ScanNearest(unv, pos, load, i0 + 1,
                              [nearestIdx |-> i0, nearestDist |-> dist])
             ELSE ScanNearest(unv, pos, load, i0 + 1, best)

\* Faulty variant of NearestIdx: the scan forgets the load already on the vehicle.
NearestIdxForgetsLoad(unv, pos, load) ==
    ScanNearest(unv, pos, 0, 0,
                [nearestIdx |-> -1, nearestDist |-> Infinity])

NearestIdx(unv, pos, load) ==
    ScanNearest(unv, pos, load, 0,
                [nearestIdx |-> -1, nearestDist |-> Infinity])

\* main.js:281-282: entry of nearestNeighborVRP.
NNInitState ==
    /\ vehicleRoutes = <<>>
    /\ unvisited = destinations
    /\ v = 0
    /\ route = <<>>
    /\ currentPos = 0
    /\ currentLoad = 0

\* Faulty variant of ForGuard: the vehicle-slot bound is missing.
ForGuardNoBudget ==
    Len(unvisited) > 0

\* main.js:284: the guard of the for loop over vehicle slots.
ForGuard ==
    v < numVehicles /\ Len(unvisited) > 0

\* main.js:324: the guard of the additional-routes while.
WhileGuard ==
    Len(unvisited) > 0 /\ Len(vehicleRoutes) < numVehicles

\* main.js:284-287: the for guard holds; a new route starts at the depot.
NNForEnter ==
    /\ pc = "nn_for"
    /\ ForGuard
    /\ route' = <<0>>
    /\ currentPos' = 0
    /\ currentLoad' = 0
    /\ pc' = "nn_scan"
    /\ UNCHANGED <<globals, fetchVars, sessionVars, evalGlobals, solveVars, bestVars, distVars,
                   vehicleRoutes, unvisited, v, savVars, optVars>>

\* main.js:284: the for guard fails; control reaches the while of line 324.
NNForExit ==
    /\ pc = "nn_for"
    /\ ~ForGuard
    /\ pc' = "nn_while"
    /\ UNCHANGED <<globals, fetchVars, sessionVars, evalGlobals, solveVars, bestVars, distVars,
                   route, nnVars, savVars, optVars>>

\* main.js:289-314 and 329-353: one iteration of the inner while that finds a
\* candidate and appends it.
NNPush(here) ==
    /\ pc = here
    /\ Len(unvisited) > 0
    /\ LET nearestIdx == NearestIdx(unvisited, currentPos, currentLoad)
       IN  /\ nearestIdx # -1
           /\ LET nextDest == unvisited[nearestIdx + 1]
                  nextIdx == IndexOf(destinations, nextDest) + 1
              IN  /\ unvisited' = SpliceOut(unvisited, nearestIdx)
                  /\ route' = Append(route, nextIdx)
                  /\ currentPos' = nextIdx
                  /\ currentLoad' = currentLoad + nextDest.demand
    /\ pc' = here
    /\ UNCHANGED <<globals, fetchVars, sessionVars, evalGlobals, solveVars, bestVars, distVars,
                   vehicleRoutes, v, savVars, optVars>>

\* main.js:289, 307 and 329, 346: the inner while ends (nothing unvisited, or
\* no candidate fits).
InnerWhileEnds ==
    \/ Len(unvisited) = 0
    \/ NearestIdx(unvisited, currentPos, currentLoad) = -1

\* Faulty variant of ClosedRoutes: a route with a single customer is discarded
\* as well.
ClosedRoutesDropsSingletons ==
    LET closed == Append(route, 0)
    IN  IF Len(closed) > 3 THEN Append(vehicleRoutes, closed)
        ELSE vehicleRoutes

\* main.js:316-320 and 355-358: close the route and keep it if it serves a
\* customer.
ClosedRoutes ==
    LET closed == Append(route, 0)
    IN  IF Len(closed) > 2 THEN Append(vehicleRoutes, closed)
        ELSE vehicleRoutes

NNAppend == NNPush("nn_scan")

\* main.js:316-321: end of one for iteration (v++ included).
NNClose ==
    /\ pc = "nn_scan"
    /\ InnerWhileEnds
    /\ route' = Append(route, 0)
    /\ vehicleRoutes' = ClosedRoutes
    /\ v' = v + 1
    /\ pc' = "nn_for"
    /\ UNCHANGED <<globals, fetchVars, sessionVars, evalGlobals, solveVars, bestVars, distVars,
                   unvisited, currentPos, currentLoad, savVars, optVars>>

\* main.js:324-327: the while guard holds; an additional route starts.
NNWhileEnter ==
    /\ pc = "nn_while"
    /\ WhileGuard
    /\ route' = <<0>>
    /\ currentPos' = 0
    /\ currentLoad' = 0
    /\ pc' = "nn_scan2"
    /\ UNCHANGED <<globals, fetchVars, sessionVars, evalGlobals, solveVars, bestVars, distVars,
                   vehicleRoutes, unvisited, v, savVars, optVars>>

NNAppend2 == NNPush("nn_scan2")

\* main.js:355-359: end of one iteration of the additional-routes while.
NNClose2 ==
    /\ pc = "nn_scan2"
    /\ InnerWhileEnds
    /\ route' = Append(route, 0)
    /\ vehicleRoutes' = ClosedRoutes
    /\ pc' = "nn_while"
    /\ UNCHANGED <<globals, fetchVars, sessionVars, evalGlobals, solveVars, bestVars, distVars,
                   unvisited, v, currentPos, currentLoad, savVars, optVars>>

\* main.js:324, 361: the while guard fails; vehicleRoutes is returned.
NNReturn ==
    /\ pc = "nn_while"
    /\ ~WhileGuard
    /\ pc' = "nn_done"
    /\ UNCHANGED <<globals, fetchVars, sessionVars, evalGlobals, solveVars, bestVars, distVars,
                   route, nnVars, savVars, optVars>>

(* ------------------------ savingsAlgorithmVRP -------------------------- *)
\* main.js:391-392: s_ij = d(0,i) + d(0,j) - d(i,j).
SavingOf(a, b) ==
    distanceMatrix[0][a] + distanceMatrix[0][b] - distanceMatrix[a][b]

\* main.js:388-399: the nested loops from (a, b) on, appending to acc.
RECURSIVE GenSavings(_, _, _)
GenSavings(a, b, acc) ==
    IF a > Len(destinations) THEN acc
    ELSE IF b > Len(destinations) THEN GenSavings(a + 1, a + 2, acc)
    ELSE GenSavings(a, b + 1,
                    Append(acc, [i |-> a, j |-> b, saving |-> SavingOf(a, b)]))

\* Faulty variant of InsertDesc: x goes in front of the entries that tie with it,
\* so equal savings end up in reverse generation order.
InsertDescBeforeTies(sorted, x) ==
    LET k == Cardinality({h \in 1..Len(sorted) : sorted[h].saving > x.saving})
    IN  SubSeq(sorted, 1, k) \o <<x>> \o SubSeq(sorted, k + 1, Len(sorted))

\* One insertion of the stable sort: x goes behind every entry whose saving
\* is at least its own (comparator b.saving - a.saving, main.js:402).
InsertDesc(sorted, x) ==
    LET k == Cardinality({h \in 1..Len(sorted) : sorted[h].saving >= x.saving})
    IN  SubSeq(sorted, 1, k) \o <<x>> \o SubSeq(sorted, k + 1, Len(sorted))

\* main.js:402: Array.prototype.sort, stable, descending by saving.
RECURSIVE SortDesc(_, _)
SortDesc(list, sorted) ==
    IF list = <<>> THEN sorted
    ELSE SortDesc(Tail(list), InsertDesc(sorted, Head(list)))

\* main.js:405-409: one route record per destination.
SingletonRoutes ==
    [k \in 1..Len(destinations) |->
        [route |-> <<0, k, 0>>,
         load |-> destinations[k].demand,
         ends |-> [start |-> k, end |-> k]]]

\* main.js:419: routes.find((r) => r.ends.end === c), as the 0-based position
\* of the record found (-1 for undefined).
FindEnd(rs, c) ==
    IF \E k \in 1..Len(rs) : rs[k].ends.end = c
    THEN (CHOOSE k \in 1..Len(rs) :
              rs[k].ends.end = c /\ \A h \in 1..(k - 1) : rs[h].ends.end # c) - 1
    ELSE -1

\* main.js:420: routes.find((r) => r.ends.start === c).
FindStart(rs, c) ==
    IF \E k \in 1..Len(rs) : rs[k].ends.start = c
    THEN (CHOOSE k \in 1..Len(rs) :
              rs[k].ends.start = c
              /\ \A h \in 1..(k - 1) : rs[h].ends.start # c) - 1
    ELSE -1

\* Faulty variant of CanMerge: the merged load must stay strictly below the
\* capacity.
CanMergeStrict(rs, idxI, idxJ) ==
    /\ idxI # -1
    /\ idxJ # -1
    /\ idxI # idxJ
    /\ rs[idxI + 1].load + rs[idxJ + 1].load < vehicleCapacity

\* main.js:422-424: both routes exist, are different records, and fit.
CanMerge(rs, idxI, idxJ) ==
    /\ idxI # -1
    /\ idxJ # -1
    /\ idxI # idxJ
    /\ rs[idxI + 1].load + rs[idxJ + 1].load <= vehicleCapacity

\* Faulty variant of MergedRecord: the two routes are concatenated without slicing
\* off the depots between them.
MergedRecordKeepsDepots(routeI, routeJ) ==
    [route |-> routeI.route \o routeJ.route,
     load |-> routeI.load + routeJ.load,
     ends |-> [start |-> routeI.ends.start, end |-> routeJ.ends.end]]

\* Faulty variant of MergedRecord: the mirrored orientation, the route starting at
\* j followed by the route ending at i.
MergedRecordMirrored(routeI, routeJ) ==
    [route |-> SubSeq(routeJ.route, 1, Len(routeJ.route) - 1)
               \o SubSeq(routeI.route, 2, Len(routeI.route)),
     load |-> routeI.load + routeJ.load,
     ends |-> [start |-> routeJ.ends.start, end |-> routeI.ends.end]]

\* Faulty variant of MergedRecord: the merged record keeps the end of the
\* first route.
MergedRecordStaleEnd(routeI, routeJ) ==
    [route |-> SubSeq(routeI.route, 1, Len(routeI.route) - 1)
               \o SubSeq(routeJ.route, 2, Len(routeJ.route)),
     load |-> routeI.load + routeJ.load,
     ends |-> [start |-> routeI.ends.start, end |-> routeI.ends.end]]

\* main.js:426-430: the merged record.
MergedRecord(routeI, routeJ) ==
    [route |-> SubSeq(routeI.route, 1, Len(routeI.route) - 1)
               \o SubSeq(routeJ.route, 2, Len(routeJ.route)),
     load |-> routeI.load + routeJ.load,
     ends |-> [start |-> routeI.ends.start, end |-> routeJ.ends.end]]

\* main.js:433-439: drop the two source records, push the merged one.
MergeRoutes(rs, idxI, idxJ) ==
    LET hi == IF idxI > idxJ THEN idxI ELSE idxJ
        lo == IF idxI > idxJ THEN idxJ ELSE idxI
    IN  Append(SpliceOut(SpliceOut(rs, hi), lo),
               MergedRecord(rs[idxI + 1], rs[idxJ + 1]))

\* main.js:444: routes.map((r) => r.route).
SavingsResult ==
    [k \in 1..Len(routes) |-> routes[k].route]

\* main.js:387-409: the savings list, sorted, and the singleton routes.
SavBuild ==
    /\ pc = "sav_start"
    /\ savings' = SortDesc(GenSavings(1, 2, <<>>), <<>>)
    /\ routes' = SingletonRoutes
    /\ sIdx' = 0
    /\ pc' = "sav_loop"
    /\ UNCHANGED <<globals, fetchVars, sessionVars, evalGlobals, solveVars, bestVars, distVars,
                   route, nnVars, optVars>>

\* Faulty variant of BudgetMet: the loop stops one route too late.
BudgetMetBelow == Len(routes) < numVehicles

\* main.js:413: the test of the break, routes.length <= numVehicles.
BudgetMet == Len(routes) <= numVehicles

\* main.js:413: the vehicle budget is met, break.
SavBreak ==
    /\ pc = "sav_loop"
    /\ sIdx < Len(savings)
    /\ BudgetMet
    /\ pc' = "sav_done"
    /\ UNCHANGED <<globals, fetchVars, sessionVars, evalGlobals, solveVars, bestVars, distVars,
                   route, nnVars, savVars, optVars>>

\* main.js:415-441: the pair's routes are merged.
SavMerge ==
    /\ pc = "sav_loop"
    /\ sIdx < Len(savings)
    /\ ~BudgetMet
    /\ LET saving == savings[sIdx + 1]
           idxI == FindEnd(routes, saving.i)
           idxJ == FindStart(routes, saving.j)
       IN  /\ CanMerge(routes, idxI, idxJ)
           /\ routes' = MergeRoutes(routes, idxI, idxJ)
    /\ sIdx' = sIdx + 1
    /\ UNCHANGED <<pc, globals, fetchVars, sessionVars, evalGlobals, solveVars, bestVars, distVars,
                   route, nnVars, savings, optVars>>

\* main.js:415-424: the pair's routes cannot be merged; next pair.
SavSkip ==
    /\ pc = "sav_loop"
    /\ sIdx < Len(savings)
    /\ ~BudgetMet
    /\ LET saving == savings[sIdx + 1]
           idxI == FindEnd(routes, saving.i)
           idxJ == FindStart(routes, saving.j)
       IN  ~CanMerge(routes, idxI, idxJ)
    /\ sIdx' = sIdx + 1
    /\ UNCHANGED <<pc, globals, fetchVars, sessionVars, evalGlobals, solveVars, bestVars, distVars,
                   route, nnVars, savings, routes, optVars>>

\* main.js:412, 444: the savings list is exhausted; the routes are returned.
SavEnd ==
    /\ pc = "sav_loop"
    /\ sIdx >= Len(savings)
    /\ pc' = "sav_done"
    /\ UNCHANGED <<globals, fetchVars, sessionVars, evalGlobals, solveVars, bestVars, distVars,
                   route, nnVars, savVars, optVars>>

(* ------------------------- twoOptImprovement --------------------------- *)
\* main.js:500-506.
RECURSIVE RouteDistanceFrom(_, _)
RouteDistanceFrom(r, k) ==
    IF k >= Len(r) - 1 THEN 0
    ELSE distanceMatrix[r[k + 1]][r[k + 2]] + RouteDistanceFrom(r, k + 1)

CalculateRouteDistance(r) == RouteDistanceFrom(r, 0)

\* Array.prototype.slice(a, b), 0-based, b exclusive.
Slice(arr, a, b) == SubSeq(arr, a + 1, b)

\* Array.prototype.reverse.
Reverse(arr) == [k \in 1..Len(arr) |-> arr[Len(arr) + 1 - k]]

\* Faulty variant of NewRoute: the segment reversed is taken from bestRoute, the
\* best candidate so far, instead of the route the pass started from.
NewRouteOfBest(r, a, b) ==
    SubSeq(bestRoute, 1, a)
    \o [k \in 1..(b - a + 1) |-> bestRoute[b + 2 - k]]
    \o SubSeq(bestRoute, b + 2, Len(bestRoute))

\* Faulty variant of NewRoute: the reversed segment stops one position early.
NewRouteShortSegment(r, a, b) ==
    SubSeq(r, 1, a)
    \o [k \in 1..(b - a) |-> r[b + 1 - k]]
    \o SubSeq(r, b + 1, Len(r))

\* Faulty variant of NewRoute: the reversed segment starts one position early.
NewRouteFromBefore(r, a, b) ==
    SubSeq(r, 1, a - 1)
    \o [k \in 1..(b - a + 2) |-> r[b + 2 - k]]
    \o SubSeq(r, b + 2, Len(r))

\* main.js:479-483: the route with the closed segment [a..b] reversed.
NewRoute(r, a, b) ==
    Slice(r, 0, a) \o Reverse(Slice(r, a, b + 1)) \o Slice(r, b + 1, Len(r))

\* main.js:470-472: entry of twoOptImprovement(route).
TwoOptEnter ==
    /\ pc = "opt_call"
    /\ improved' = TRUE
    /\ bestRoute' = route
    /\ bestDistance' = CalculateRouteDistance(route)
    /\ pc' = "opt_while"
    /\ UNCHANGED <<globals, fetchVars, sessionVars, evalGlobals, solveVars, bestVars, distVars,
                   route, nnVars, savVars, i, j, inputRoute, firstResult>>

\* main.js:474-477: a pass starts.
TwoOptPassStart ==
    /\ pc = "opt_while"
    /\ improved
    /\ improved' = FALSE
    /\ i' = 1
    /\ j' = 2
    /\ pc' = "opt_for"
    /\ UNCHANGED <<globals, fetchVars, sessionVars, evalGlobals, solveVars, bestVars, distVars,
                   route, nnVars, savVars, bestRoute, bestDistance,
                   inputRoute, firstResult>>

\* Faulty variant of Improves: only the first improving candidate of a pass is
\* accepted.
ImprovesFirstOnly(newDistance, best) == ~improved /\ newDistance < best

\* Faulty variants of Improves: the comparison is flipped; ties are accepted.
ImprovesFlipped(newDistance, best) == newDistance > best

ImprovesOrTies(newDistance, best) == newDistance <= best

\* main.js:486: the candidate is strictly shorter than the best so far.
Improves(newDistance, best) == newDistance < best

\* main.js:477-491: one candidate (i, j) is built and compared.
TwoOptTry ==
    /\ pc = "opt_for"
    /\ i < Len(route) - 2
    /\ j < Len(route) - 1
    /\ LET newRoute == NewRoute(route, i, j)
           newDistance == CalculateRouteDistance(newRoute)
       IN  IF Improves(newDistance, bestDistance)
           THEN /\ bestRoute' = newRoute
                /\ bestDistance' = newDistance
                /\ improved' = TRUE
           ELSE UNCHANGED <<bestRoute, bestDistance, improved>>
    /\ j' = j + 1
    /\ UNCHANGED <<pc, globals, fetchVars, sessionVars, evalGlobals, solveVars, bestVars, distVars,
                   route, nnVars, savVars, i, inputRoute, firstResult>>

\* main.js:476-477: the inner loop ends; next i.
TwoOptNextI ==
    /\ pc = "opt_for"
    /\ i < Len(route) - 2
    /\ j >= Len(route) - 1
    /\ i' = i + 1
    /\ j' = i + 2
    /\ UNCHANGED <<pc, globals, fetchVars, sessionVars, evalGlobals, solveVars, bestVars, distVars,
                   route, nnVars, savVars, bestRoute, bestDistance,
                   improved, inputRoute, firstResult>>

\* Faulty variant of TwoOptPassEnd: the assignment route = bestRoute is missing.
TwoOptPassEndKeepsRoute ==
    /\ pc = "opt_for"
    /\ i >= Len(route) - 2
    /\ pc' = "opt_while"
    /\ UNCHANGED <<globals, fetchVars, sessionVars, evalGlobals, solveVars, bestVars, distVars,
                   route, nnVars, savVars, optVars>>

\* main.js:476, 493: the outer loop ends; route = bestRoute.
TwoOptPassEnd ==
    /\ pc = "opt_for"
    /\ i >= Len(route) - 2
    /\ route' = bestRoute
    /\ pc' = "opt_while"
    /\ UNCHANGED <<globals, fetchVars, sessionVars, evalGlobals, solveVars, bestVars, distVars,
                   nnVars, savVars, bestRoute, bestDistance, improved,
                   i, j, inputRoute, firstResult>>

\* main.js:474, 496: no improvement in the last pass; bestRoute is returned.
TwoOptReturn ==
    /\ pc = "opt_while"
    /\ ~improved
    /\ pc' = "opt_done"
    /\ UNCHANGED <<globals, fetchVars, sessionVars, evalGlobals, solveVars, bestVars, distVars,
                   route, nnVars, savVars, optVars>>

\* main.js:469: twoOptImprovement is called again, on the route it returned.
TwoOptReapply ==
    /\ pc = "opt_done"
    /\ firstResult = <<>>
    /\ firstResult' = bestRoute
    /\ route' = bestRoute
    /\ pc' = "opt_call"
    /\ UNCHANGED <<globals, fetchVars, sessionVars, evalGlobals, solveVars, bestVars, distVars,
                   nnVars, savVars, bestRoute, bestDistance, improved,
                   i, j, inputRoute>>

(* ------------------------- metrics, evaluator -------------------------- *)
\* main.js:509-515: calculateRouteTime, over timeMatrix.
RECURSIVE RouteTimeFrom(_, _)
RouteTimeFrom(r, k) ==
    IF k >= Len(r) - 1 THEN 0
    ELSE timeMatrix[r[k + 1]][r[k + 2]] + RouteTimeFrom(r, k + 1)

CalculateRouteTime(r) == RouteTimeFrom(r, 0)

\* main.js:518-521: (distance / 100) * fuelConsumption.  The value is kept in
\* hundredths of a litre, so the division by 100 is exact: distance times
\* fuelConsumption, NaN when fuelConsumption is undefined.
CalculateRouteEnergy(r) ==
    JsTimes(Num(CalculateRouteDistance(r)), fuelConsumption)

\* main.js:600-602: the totals before the forEach.
ZeroTotals ==
    [totalDistance |-> 0, totalTime |-> 0, totalEnergy |-> Num(0)]

\* main.js:605-609: the forEach from position k (0-based) on.
RECURSIVE EvaluateFold(_, _, _)
EvaluateFold(rs, k, totals) ==
    IF k >= Len(rs) THEN totals
    ELSE EvaluateFold(rs, k + 1,
             [totalDistance |->
                  totals.totalDistance + CalculateRouteDistance(rs[k + 1]),
              totalTime |-> totals.totalTime + CalculateRouteTime(rs[k + 1]),
              totalEnergy |->
                  JsPlus(totals.totalEnergy, CalculateRouteEnergy(rs[k + 1]))])

\* Faulty variant of EvaluateSolution: the first route is left out of the totals.
EvaluateSolutionSkipsFirst(rs, algorithmName, cIdx) ==
    LET totals == EvaluateFold(rs, 1, ZeroTotals)
    IN  [algorithm |-> algorithmName,
         distance |-> totals.totalDistance,
         time |-> totals.totalTime,
         energy |-> totals.totalEnergy,
         vehicles |-> Len(rs),
         routes |-> rs,
         color |-> cIdx % NumVehicleColors]

\* main.js:599-620: evaluateSolution(routes, algorithmName, colorIndex).  The
\* colour is kept as its position in vehicleColors.
EvaluateSolution(rs, algorithmName, cIdx) ==
    LET totals == EvaluateFold(rs, 0, ZeroTotals)
    IN  [algorithm |-> algorithmName,
         distance |-> totals.totalDistance,
         time |-> totals.totalTime,
         energy |-> totals.totalEnergy,
         vehicles |-> Len(rs),
         routes |-> rs,
         color |-> cIdx % NumVehicleColors]

(* --------------------------- validateProblem --------------------------- *)
\* main.js:1153: destinations.reduce((sum, d) => sum + d.demand, 0).
RECURSIVE TotalDemand(_)
TotalDemand(ds) ==
    IF ds = <<>> THEN 0
    ELSE Head(ds).demand + TotalDemand(Tail(ds))

\* main.js:1152-1179: the gate solveVRP passes before it calls a constructor
\* (main.js:530).  A loaded problem always has its depot (main.js:145).
ValidateProblem ==
    LET totalDemand == TotalDemand(destinations)
        totalCapacity == numVehicles * vehicleCapacity
    IN  IF totalDemand > totalCapacity THEN FALSE
        ELSE IF Len(destinations) = 0 THEN FALSE
        ELSE TRUE

(* ------------------------------ solveVRP ------------------------------- *)
\* main.js:1157-1160: the warning of validateProblem.
DemandWarning ==
    "ADVERTENCIA: La demanda total excede la capacidad total. Algunos clientes no podran ser atendidos."

\* main.js:1165-1167: the message for an empty destinations array.
NoDestinationsError ==
    "Error: No hay destinos definidos. Por favor, cargue un archivo JSON primero."

\* main.js:539.
NoAlgorithmMessage == "Seleccione al menos un algoritmo heuristico"

\* main.js:1156-1170: the message validateProblem shows when it returns false.
ValidationMessage ==
    IF TotalDemand(destinations) > numVehicles * vehicleCapacity
    THEN DemandWarning
    ELSE NoDestinationsError

\* main.js:530-532: validateProblem alerts and returns false; solveVRP returns.
SolveInvalid ==
    /\ pc = "solve_call"
    /\ ~ValidateProblem
    /\ alerts' = Append(alerts, ValidationMessage)
    /\ pc' = "solve_returned"
    /\ UNCHANGED <<globals, fetchVars, sessionVars, evalGlobals, route, nnVars, savVars, optVars,
                   useNN, useSavings, use2Opt, stage, solRoutes, mapIdx,
                   colorIndex, results, bestVars, distVars>>

\* main.js:534-541: no heuristic is selected.
SolveNoAlgorithm ==
    /\ pc = "solve_call"
    /\ ValidateProblem
    /\ ~useNN /\ ~useSavings
    /\ alerts' = Append(alerts, NoAlgorithmMessage)
    /\ pc' = "solve_returned"
    /\ UNCHANGED <<globals, fetchVars, sessionVars, evalGlobals, route, nnVars, savVars, optVars,
                   useNN, useSavings, use2Opt, stage, solRoutes, mapIdx,
                   colorIndex, results, bestVars, distVars>>

\* main.js:530, 543-558, 231: the problem is accepted, the markers are drawn
\* and the matrix is requested for the locations of the moment.
SolveAwaitMatrix ==
    /\ pc = "solve_call"
    /\ ValidateProblem
    /\ useNN \/ useSavings
    /\ validatedFor' = <<destinations, numVehicles, vehicleCapacity>>
    /\ requestFor' = destinations
    /\ pc' = "solve_await"
    /\ UNCHANGED <<globals, fetchVars, matrixFor, loads, solves, evalGlobals,
                   route, nnVars, savVars, optVars, solveVars, bestVars,
                   distVars>>

\* main.js:250-253, 558-561: the service answers; both matrices are stored.
SolveMatrixOk ==
    /\ pc = "solve_await"
    /\ \E m \in 0..(NumMatrices - 1) :
          /\ distanceMatrix' = MatrixResponse(m, Len(requestFor))
          /\ timeMatrix' = MatrixResponse(m + NumMatrices, Len(requestFor))
    /\ matrixFor' = requestFor
    /\ results' = <<>>
    /\ colorIndex' = 0
    /\ pc' = "solve_first"
    /\ UNCHANGED <<destinations, numVehicles, vehicleCapacity, fuelConsumption,
                   fetchVars, requestFor, validatedFor, loads, solves,
                   route, nnVars, savVars, optVars, useNN, useSavings, use2Opt,
                   alerts, stage, solRoutes, mapIdx, bestVars, distVars>>

\* main.js:254-257: the request fails and calculateDistanceMatrix returns
\* false, which solveVRP ignores (main.js:558); distanceMatrix is still [], so
\* the first read distanceMatrix[0][k] of the selected constructor
\* (main.js:297, 391) throws a TypeError out of solveVRP.
SolveMatrixFails ==
    /\ pc = "solve_await"
    /\ distanceMatrix = <<>>
    /\ pc' = "solve_threw"
    /\ UNCHANGED <<globals, fetchVars, sessionVars, evalGlobals, route, nnVars, savVars, optVars,
                   solveVars, bestVars, distVars>>

\* main.js:564-565: nearestNeighborVRP is called.
SolveCallNN ==
    /\ pc = "solve_first"
    /\ useNN
    /\ stage' = "nn"
    /\ vehicleRoutes' = <<>>
    /\ unvisited' = destinations
    /\ v' = 0
    /\ route' = <<>>
    /\ currentPos' = 0
    /\ currentLoad' = 0
    /\ pc' = "nn_for"
    /\ UNCHANGED <<globals, fetchVars, sessionVars, evalGlobals, savVars, optVars, useNN, useSavings,
                   use2Opt, alerts, solRoutes, mapIdx, colorIndex, results,
                   bestVars, distVars>>

\* main.js:564: useNN is not checked.
SolveSkipNN ==
    /\ pc = "solve_first"
    /\ ~useNN
    /\ pc' = "solve_second"
    /\ UNCHANGED <<globals, fetchVars, sessionVars, evalGlobals, route, nnVars, savVars, optVars,
                   solveVars, bestVars, distVars>>

\* main.js:565-566, 580-581: the constructor returned its routes.
SolveTakeRoutes ==
    /\ \/ pc = "nn_done" /\ solRoutes' = vehicleRoutes
       \/ pc = "sav_done" /\ solRoutes' = SavingsResult
    /\ mapIdx' = 0
    /\ pc' = IF use2Opt THEN "solve_map" ELSE "solve_eval"
    /\ UNCHANGED <<globals, fetchVars, sessionVars, evalGlobals, route, nnVars, savVars, optVars,
                   useNN, useSavings, use2Opt, alerts, stage, colorIndex,
                   results, bestVars, distVars>>

\* main.js:567, 582: routes.map calls twoOptImprovement on the next route.
SolveMapCall ==
    /\ pc = "solve_map"
    /\ mapIdx < Len(solRoutes)
    /\ route' = solRoutes[mapIdx + 1]
    /\ inputRoute' = solRoutes[mapIdx + 1]
    /\ firstResult' = <<>>
    /\ pc' = "opt_call"
    /\ UNCHANGED <<globals, fetchVars, sessionVars, evalGlobals, nnVars, savVars, bestRoute,
                   bestDistance, improved, i, j, solveVars, bestVars, distVars>>

\* main.js:567, 582: twoOptImprovement returned bestRoute for that position.
SolveMapReturn ==
    /\ pc = "opt_done"
    /\ solRoutes' = [solRoutes EXCEPT ![mapIdx + 1] = bestRoute]
    /\ mapIdx' = mapIdx + 1
    /\ pc' = "solve_map"
    /\ UNCHANGED <<globals, fetchVars, sessionVars, evalGlobals, route, nnVars, savVars, optVars,
                   useNN, useSavings, use2Opt, alerts, stage, colorIndex,
                   results, bestVars, distVars>>

\* main.js:567, 582: routes.map is through.
SolveMapEnd ==
    /\ pc = "solve_map"
    /\ mapIdx >= Len(solRoutes)
    /\ pc' = "solve_eval"
    /\ UNCHANGED <<globals, fetchVars, sessionVars, evalGlobals, route, nnVars, savVars, optVars,
                   solveVars, bestVars, distVars>>

\* main.js:571, 586: the name evaluateSolution is given.
AlgorithmName ==
    IF stage = "nn"
    THEN (IF use2Opt THEN "Vecino Mas Cercano + 2-Opt"
                     ELSE "Vecino Mas Cercano")
    ELSE (IF use2Opt THEN "Algoritmo de Ahorros + 2-Opt"
                     ELSE "Algoritmo de Ahorros")

\* main.js:569-576, 584-591: the routes are evaluated and the result is
\* pushed; after the first block comes the second, after the second the
\* report.
SolveEvaluate ==
    /\ pc = "solve_eval"
    /\ results' = Append(results,
                         EvaluateSolution(solRoutes, AlgorithmName, colorIndex))
    /\ colorIndex' = colorIndex + 1
    /\ pc' = IF stage = "nn" THEN "solve_second" ELSE "best_call"
    /\ UNCHANGED <<globals, fetchVars, sessionVars, evalGlobals, route, nnVars, savVars, optVars,
                   useNN, useSavings, use2Opt, alerts, stage, solRoutes,
                   mapIdx, bestVars, distVars>>

\* main.js:579-580: savingsAlgorithmVRP is called.
SolveCallSavings ==
    /\ pc = "solve_second"
    /\ useSavings
    /\ stage' = "savings"
    /\ pc' = "sav_start"
    /\ UNCHANGED <<globals, fetchVars, sessionVars, evalGlobals, route, nnVars, savVars, optVars,
                   useNN, useSavings, use2Opt, alerts, solRoutes, mapIdx,
                   colorIndex, results, bestVars, distVars>>

\* main.js:579, 595: useSavings is not checked; the report is opened.
SolveSkipSavings ==
    /\ pc = "solve_second"
    /\ ~useSavings
    /\ pc' = "best_call"
    /\ UNCHANGED <<globals, fetchVars, sessionVars, evalGlobals, route, nnVars, savVars, optVars,
                   solveVars, bestVars, distVars>>

(* ------------------------ best-solution selection ---------------------- *)
\* main.js:904-906, 1201-1203: results.reduce without an initial value starts
\* from the first element (results is not empty: solveVRP ran a heuristic).
BestStart ==
    /\ pc = "best_call"
    /\ Len(results) >= 1
    /\ reduceBest' = results[1]
    /\ cur' = 1
    /\ pc' = "best_loop"
    /\ UNCHANGED <<globals, fetchVars, sessionVars, evalGlobals, route, nnVars, savVars, optVars,
                   solveVars, bestResult, distVars>>

\* Faulty variant of Better: a tie replaces the accumulator.
BetterOrEqual(current, acc) == current.distance <= acc.distance

\* main.js:905: current.distance < best.distance.
Better(current, acc) == current.distance < acc.distance

\* main.js:905: one call of the reducer.
BestStep ==
    /\ pc = "best_loop"
    /\ cur < Len(results)
    /\ reduceBest' = IF Better(results[cur + 1], reduceBest)
                     THEN results[cur + 1]
                     ELSE reduceBest
    /\ cur' = cur + 1
    /\ UNCHANGED <<pc, globals, fetchVars, sessionVars, evalGlobals, route, nnVars, savVars, optVars,
                   solveVars, bestResult, distVars>>

\* main.js:904, 1201: reduce returns the accumulator.
BestReturn ==
    /\ pc = "best_loop"
    /\ cur >= Len(results)
    /\ bestResult' = <<reduceBest>>
    /\ pc' = "best_done"
    /\ UNCHANGED <<globals, fetchVars, sessionVars, evalGlobals, route, nnVars, savVars, optVars,
                   solveVars, reduceBest, cur, distVars>>

(* ----------------- calculateRouteDistance, step by step ---------------- *)
\* main.js:503: the value of distanceMatrix[row][col] once distanceMatrix[row]
\* exists; a column outside the row reads as undefined.
MatrixRead(row, col) ==
    IF col \in DOMAIN distanceMatrix[row]
    THEN Num(distanceMatrix[row][col])
    ELSE Undefined

\* main.js:502-503: one iteration; the row exists.
DistanceAdd ==
    /\ pc = "dist_loop"
    /\ distI < Len(route) - 1
    /\ route[distI + 1] \in DOMAIN distanceMatrix
    /\ distance' = JsPlus(distance,
                          MatrixRead(route[distI + 1], route[distI + 2]))
    /\ distI' = distI + 1
    /\ UNCHANGED <<pc, globals, fetchVars, sessionVars, evalGlobals, route, nnVars, savVars, optVars,
                   solveVars, bestVars>>

\* main.js:503: distanceMatrix[row] is undefined, so reading [col] of it
\* throws a TypeError.
DistanceThrow ==
    /\ pc = "dist_loop"
    /\ distI < Len(route) - 1
    /\ route[distI + 1] \notin DOMAIN distanceMatrix
    /\ pc' = "dist_threw"
    /\ UNCHANGED <<globals, fetchVars, sessionVars, evalGlobals, route, nnVars, savVars, optVars,
                   solveVars, bestVars, distVars>>

\* main.js:502, 505: the loop ends; distance is returned.
DistanceReturn ==
    /\ pc = "dist_loop"
    /\ distI >= Len(route) - 1
    /\ pc' = "dist_returned"
    /\ UNCHANGED <<globals, fetchVars, sessionVars, evalGlobals, route, nnVars, savVars, optVars,
                   solveVars, bestVars, distVars>>

\* ---------------------------------------------------------------------------
\* fetchWithRetry (main.js:41-75)
\* ---------------------------------------------------------------------------

\* main.js:43: let delay = 500.
InitialDelay == 500

\* main.js:52: the Retry-After header of a 429 response: absent (-1) or a
\* number of seconds.
RetryAfterHeaders == {-1} \cup (0..MaxRetryAfter)

\* main.js:53: retryAfter ? parseFloat(retryAfter) * 1000 : delay.
WaitMs(retryAfter) ==
    IF retryAfter # -1 THEN retryAfter * 1000 ELSE delay

\* main.js:45-48: the while guard holds, attempt++ and fetch is called.
FetchCalled(response) ==
    /\ pc = "fetch_loop"
    /\ attempt < maxAttempts
    /\ attempt' = attempt + 1
    /\ fetchCalls' = fetchCalls + 1
    /\ lastResponse' = response

\* main.js:66-71: the catch block of the loop body. It receives whatever the
\* try block threw: the rejection of fetch (line 48) and the Error thrown at
\* line 62 alike.
CatchBlock ==
    IF attempt' >= maxAttempts
    THEN /\ pc' = "fetch_threw"
         /\ UNCHANGED <<delay, sleeps>>
    ELSE /\ sleeps' = Append(sleeps, delay)
         /\ delay' = delay * 2
         /\ pc' = "fetch_loop"

\* main.js:48, 65: the response is OK and is returned.
FetchOk ==
    /\ FetchCalled("ok")
    /\ pc' = "fetch_returned"
    /\ UNCHANGED <<globals, sessionVars, evalGlobals, solveVars, bestVars,
                   distVars, route, nnVars, savVars, optVars, maxAttempts,
                   delay, sleeps>>

\* main.js:50-57: status 429; wait Retry-After (or the backoff), double the
\* backoff and continue.
Fetch429 ==
    /\ FetchCalled("429")
    /\ \E retryAfter \in RetryAfterHeaders :
          sleeps' = Append(sleeps, WaitMs(retryAfter))
    /\ delay' = delay * 2
    /\ pc' = "fetch_loop"
    /\ UNCHANGED <<globals, sessionVars, evalGlobals, solveVars, bestVars,
                   distVars, route, nnVars, savVars, optVars, maxAttempts>>

\* main.js:59-63, 66-71: a non-OK status other than 429; the Error is thrown
\* inside the try block.
FetchHttpError ==
    /\ FetchCalled("http_error")
    /\ CatchBlock
    /\ UNCHANGED <<globals, sessionVars, evalGlobals, solveVars, bestVars,
                   distVars, route, nnVars, savVars, optVars, maxAttempts>>

\* main.js:48, 66-71: fetch rejects (network failure).
FetchNetworkError ==
    /\ FetchCalled("network_error")
    /\ CatchBlock
    /\ UNCHANGED <<globals, sessionVars, evalGlobals, solveVars, bestVars,
                   distVars, route, nnVars, savVars, optVars, maxAttempts>>

\* main.js:45, 74: the while guard fails (the last attempt got a 429).
FetchExhausted ==
    /\ pc = "fetch_loop"
    /\ attempt >= maxAttempts
    /\ pc' = "fetch_threw"
    /\ UNCHANGED <<globals, sessionVars, evalGlobals, solveVars, bestVars,
                   distVars, route, nnVars, savVars, optVars, fetchVars>>

(* --------------------------- specifications ---------------------------- *)
\* Locals of a function that is not running.
NNIdle ==
    /\ vehicleRoutes = <<>>
    /\ unvisited = <<>>
    /\ v = 0
    /\ currentPos = 0
    /\ currentLoad = 0

SavIdle ==
    /\ savings = <<>>
    /\ routes = <<>>
    /\ sIdx = 0

OptIdle ==
    /\ bestRoute = <<>>
    /\ bestDistance = 0
    /\ improved = FALSE
    /\ i = 0
    /\ j = 0
    /\ inputRoute = <<>>
    /\ firstResult = <<>>

\* The evaluation globals before any file is loaded (main.js:5, 13).
EvalGlobalsIdle ==
    /\ timeMatrix = <<>>
    /\ fuelConsumption = Undefined

SolveIdle ==
    /\ useNN = FALSE
    /\ useSavings = FALSE
    /\ use2Opt = FALSE
    /\ alerts = <<>>
    /\ stage = ""
    /\ solRoutes = <<>>
    /\ mapIdx = 0
    /\ colorIndex = 0
    /\ results = <<>>

BestIdle ==
    /\ reduceBest = <<>>
    /\ cur = 0
    /\ bestResult = <<>>

DistIdle ==
    /\ distI = 0
    /\ distance = Num(0)

FetchIdle ==
    /\ maxAttempts = 0
    /\ attempt = 0
    /\ delay = 0
    /\ fetchCalls = 0
    /\ sleeps = <<>>
    /\ lastResponse = ""

SessionIdle ==
    /\ requestFor = <<>>
    /\ matrixFor = <<>>
    /\ validatedFor = <<>>
    /\ loads = 0
    /\ solves = 0

\* A loaded problem (main.js:145-150) and a matrix response (main.js:251).
LoadedProblem ==
    /\ \E demands \in DemandLists, m \in 0..(NumMatrices - 1) :
          /\ destinations = DestinationsOf(demands)
          /\ distanceMatrix = MatrixResponse(m, Len(demands))
    /\ numVehicles \in 1..MaxVehicles
    /\ vehicleCapacity \in 1..MaxCapacity

\* A call of nearestNeighborVRP (main.js:565).
InitNN ==
    /\ LoadedProblem
    /\ pc = "nn_for"
    /\ NNInitState
    /\ SavIdle
    /\ OptIdle
    /\ EvalGlobalsIdle
    /\ SolveIdle
    /\ BestIdle
    /\ DistIdle
    /\ FetchIdle
    /\ SessionIdle

\* A call of savingsAlgorithmVRP (main.js:580).
InitSavings ==
    /\ LoadedProblem
    /\ pc = "sav_start"
    /\ route = <<>>
    /\ NNIdle
    /\ SavIdle
    /\ OptIdle
    /\ EvalGlobalsIdle
    /\ SolveIdle
    /\ BestIdle
    /\ DistIdle
    /\ FetchIdle
    /\ SessionIdle

\* The depot-framed routes over customers 1..n, each customer at most once.
FramedRoutes(n) ==
    {<<0>> \o s \o <<0>> :
        s \in {t \in UNION {[1..k -> 1..n] : k \in 0..n} :
                  \A a, b \in 1..Len(t) : a # b => t[a] # t[b]}}

\* A call of twoOptImprovement(route) (main.js:567, 582).
InitTwoOpt ==
    /\ \E m \in 0..(NumMatrices - 1) :
          distanceMatrix = MatrixResponse(m, MaxRouteCustomers)
    /\ destinations = DestinationsOf([k \in 1..MaxRouteCustomers |-> 1])
    /\ numVehicles = 1
    /\ vehicleCapacity = MaxCapacity
    /\ route \in FramedRoutes(MaxRouteCustomers)
    /\ pc = "opt_call"
    /\ NNIdle
    /\ SavIdle
    /\ bestRoute = <<>>
    /\ bestDistance = 0
    /\ improved = FALSE
    /\ i = 0
    /\ j = 0
    /\ inputRoute = route
    /\ firstResult = <<>>
    /\ EvalGlobalsIdle
    /\ SolveIdle
    /\ BestIdle
    /\ DistIdle
    /\ FetchIdle
    /\ SessionIdle

\* What a case file may carry as fuelConsumption (main.js:150): nothing, or a
\* number.
FuelValues == {Undefined} \cup {Num(f) : f \in 0..MaxFuel}

\* A loaded case file (main.js:145-150) and the checkboxes of the page, before
\* any matrix was requested (main.js:4-5); solveVRP is called (main.js:526).
InitSolve ==
    /\ \E demands \in DemandLists : destinations = DestinationsOf(demands)
    /\ numVehicles \in 1..MaxVehicles
    /\ vehicleCapacity \in 1..MaxCapacity
    /\ distanceMatrix = <<>>
    /\ timeMatrix = <<>>
    /\ fuelConsumption \in FuelValues
    /\ useNN \in BOOLEAN
    /\ useSavings \in BOOLEAN
    /\ use2Opt \in BOOLEAN
    /\ alerts = <<>>
    /\ stage = ""
    /\ solRoutes = <<>>
    /\ mapIdx = 0
    /\ colorIndex = 0
    /\ results = <<>>
    /\ pc = "solve_call"
    /\ route = <<>>
    /\ NNIdle
    /\ SavIdle
    /\ OptIdle
    /\ BestIdle
    /\ DistIdle
    /\ FetchIdle
    /\ SessionIdle

\* The lists of at most n routes drawn from the set rs.
RouteLists(rs, n) == UNION {[1..k -> rs] : k \in 0..n}

\* A call of evaluateSolution(routes, ...) (main.js:569, 584) on any list of
\* depot-framed routes, with both matrices in place.
InitEvaluate ==
    /\ \E m \in 0..(NumEvalMatrices - 1) :
          /\ distanceMatrix = MatrixResponse(m, MaxEvalCustomers)
          /\ timeMatrix = MatrixResponse(m + NumMatrices, MaxEvalCustomers)
    /\ destinations = DestinationsOf([k \in 1..MaxEvalCustomers |-> 1])
    /\ numVehicles = MaxEvalRoutes
    /\ vehicleCapacity = MaxCapacity
    /\ fuelConsumption \in FuelValues
    /\ solRoutes \in RouteLists(FramedRoutes(MaxEvalCustomers), MaxEvalRoutes)
    /\ stage \in {"nn", "savings"}
    /\ use2Opt \in BOOLEAN
    /\ useNN = (stage = "nn")
    /\ useSavings = (stage = "savings")
    /\ alerts = <<>>
    /\ mapIdx = 0
    /\ colorIndex = 0
    /\ results = <<>>
    /\ pc = "solve_eval"
    /\ route = <<>>
    /\ NNIdle
    /\ SavIdle
    /\ OptIdle
    /\ BestIdle
    /\ DistIdle
    /\ FetchIdle
    /\ SessionIdle

\* A solution as evaluateSolution returns it (main.js:611-619), reduced to
\* what the selection reads: its distance; the colour tells the solutions of
\* one list apart.
SolutionOf(k, d) ==
    [algorithm |-> "solution",
     distance |-> d,
     time |-> 0,
     energy |-> Num(0),
     vehicles |-> 0,
     routes |-> <<>>,
     color |-> (k - 1) % NumVehicleColors]

\* A call of the selection (main.js:904, 1201) on any non-empty list of
\* solutions.
InitBest ==
    /\ \E n \in 1..MaxSolutions :
          \E ds \in [1..n -> 0..MaxDist] :
              results = [k \in 1..n |-> SolutionOf(k, ds[k])]
    /\ destinations = <<>>
    /\ numVehicles = 1
    /\ vehicleCapacity = 1
    /\ distanceMatrix = <<>>
    /\ EvalGlobalsIdle
    /\ useNN = FALSE
    /\ useSavings = FALSE
    /\ use2Opt = FALSE
    /\ alerts = <<>>
    /\ stage = ""
    /\ solRoutes = <<>>
    /\ mapIdx = 0
    /\ colorIndex = 0
    /\ pc = "best_call"
    /\ route = <<>>
    /\ NNIdle
    /\ SavIdle
    /\ OptIdle
    /\ BestIdle
    /\ DistIdle
    /\ FetchIdle
    /\ SessionIdle

\* A call of calculateRouteDistance(route) (main.js:500) on any list of
\* indices, in the matrix or one past it.
InitDistance ==
    /\ \E m \in 0..(NumEvalMatrices - 1) :
          distanceMatrix = MatrixResponse(m, MaxEvalCustomers)
    /\ destinations = DestinationsOf([k \in 1..MaxEvalCustomers |-> 1])
    /\ numVehicles = 1
    /\ vehicleCapacity = MaxCapacity
    /\ route \in UNION {[1..k -> 0..(MaxEvalCustomers + 1)] :
                           k \in 0..MaxIndexListLen}
    /\ pc = "dist_loop"
    /\ EvalGlobalsIdle
    /\ SolveIdle
    /\ NNIdle
    /\ SavIdle
    /\ OptIdle
    /\ BestIdle
    /\ DistIdle
    /\ FetchIdle
    /\ SessionIdle

NextNN ==
    \/ NNForEnter
    \/ NNForExit
    \/ NNAppend
    \/ NNClose
    \/ NNWhileEnter
    \/ NNAppend2
    \/ NNClose2
    \/ NNReturn

NextSavings ==
    \/ SavBuild
    \/ SavBreak
    \/ SavMerge
    \/ SavSkip
    \/ SavEnd

NextTwoOpt ==
    \/ TwoOptEnter
    \/ TwoOptPassStart
    \/ TwoOptTry
    \/ TwoOptNextI
    \/ TwoOptPassEnd
    \/ TwoOptReturn
    \/ TwoOptReapply

\* twoOptImprovement as solveVRP runs it: once per route.
NextTwoOptOnce ==
    \/ TwoOptEnter
    \/ TwoOptPassStart
    \/ TwoOptTry
    \/ TwoOptNextI
    \/ TwoOptPassEnd
    \/ TwoOptReturn

NextBest ==
    \/ BestStart
    \/ BestStep
    \/ BestReturn

NextSolve ==
    \/ SolveInvalid
    \/ SolveNoAlgorithm
    \/ SolveAwaitMatrix
    \/ SolveMatrixOk
    \/ SolveMatrixFails
    \/ SolveCallNN
    \/ SolveSkipNN
    \/ NextNN
    \/ SolveTakeRoutes
    \/ SolveMapCall
    \/ NextTwoOptOnce
    \/ SolveMapReturn
    \/ SolveMapEnd
    \/ SolveEvaluate
    \/ SolveCallSavings
    \/ SolveSkipSavings
    \/ NextSavings
    \/ NextBest

NextDistance ==
    \/ DistanceAdd
    \/ DistanceThrow
    \/ DistanceReturn

\* ---------------------------------------------------------------------------
\* A session of the page: case files are loaded and solveVRP is called again
\* (main.js:87-225, 230-258, 526-596)
\* ---------------------------------------------------------------------------

\* The case files of a session: SessionCustomers customers of one demand each,
\* a fleet size and a capacity. All files have the same number of customers,
\* so every read of a heuristic stays inside a matrix that was computed for
\* another file.
SessionProblems ==
    [demand : 1..MaxSessionDemand, numVehicles : 1..MaxSessionVehicles,
     vehicleCapacity : 1..MaxSessionDemand]

\* main.js:95: JSON.parse builds fresh objects for every file; ref tells the
\* customers of the file number f from those of any other file.
FileDestinations(f, demand) ==
    [k \in 1..SessionCustomers |->
        [ref |-> f * (SessionCustomers + 1) + k, demand |-> demand]]

\* main.js:200-215: the summary loadFromJSONFile shows, with the warning of
\* lines 209-213 when the demand exceeds the capacity of the fleet.
LoadedMessage(ds, nv, cap) ==
    IF TotalDemand(ds) > nv * cap
    THEN "Datos cargados exitosamente! ADVERTENCIA: La demanda total excede la capacidad total."
    ELSE "Datos cargados exitosamente!"

\* main.js:92-215: reader.onload. The callback runs when no other JavaScript
\* does: between two calls of solveVRP, or while solveVRP is suspended at the
\* await of line 558. It replaces the problem (lines 145-150) and leaves
\* distanceMatrix and timeMatrix alone.
LoadFile ==
    /\ pc \in {"solve_await", "solve_returned", "solve_threw", "best_done"}
    /\ loads < MaxLoads
    /\ \E p \in SessionProblems :
          /\ destinations' = FileDestinations(loads + 1, p.demand)
          /\ numVehicles' = p.numVehicles
          /\ vehicleCapacity' = p.vehicleCapacity
          /\ alerts' = Append(alerts,
                 LoadedMessage(FileDestinations(loads + 1, p.demand),
                               p.numVehicles, p.vehicleCapacity))
    /\ fuelConsumption' = Num(MaxFuel)
    /\ loads' = loads + 1
    /\ UNCHANGED <<pc, distanceMatrix, timeMatrix, fetchVars, requestFor,
                   matrixFor, validatedFor, solves, route, nnVars, savVars,
                   optVars, useNN, useSavings, use2Opt, stage, solRoutes,
                   mapIdx, colorIndex, results, bestVars, distVars>>

\* main.js:526: solveVRP is called again; the locals of the call before are
\* gone.
SolveAgain ==
    /\ pc \in {"solve_returned", "solve_threw", "best_done"}
    /\ solves < MaxSolves
    /\ solves' = solves + 1
    /\ pc' = "solve_call"
    /\ stage' = ""
    /\ solRoutes' = <<>>
    /\ mapIdx' = 0
    /\ colorIndex' = 0
    /\ results' = <<>>
    /\ route' = <<>>
    /\ vehicleRoutes' = <<>>
    /\ unvisited' = <<>>
    /\ v' = 0
    /\ currentPos' = 0
    /\ currentLoad' = 0
    /\ savings' = <<>>
    /\ routes' = <<>>
    /\ sIdx' = 0
    /\ bestRoute' = <<>>
    /\ bestDistance' = 0
    /\ improved' = FALSE
    /\ i' = 0
    /\ j' = 0
    /\ inputRoute' = <<>>
    /\ firstResult' = <<>>
    /\ reduceBest' = <<>>
    /\ cur' = 0
    /\ bestResult' = <<>>
    /\ UNCHANGED <<globals, evalGlobals, fetchVars, requestFor, matrixFor,
                   validatedFor, loads, useNN, useSavings, use2Opt, alerts,
                   distVars>>

\* main.js:254-257, 558-561: the request fails, calculateDistanceMatrix logs
\* the error and returns false, solveVRP ignores the value (line 558) and goes
\* on with the matrices of an earlier call.
SolveMatrixStale ==
    /\ pc = "solve_await"
    /\ distanceMatrix # <<>>
    /\ results' = <<>>
    /\ colorIndex' = 0
    /\ pc' = "solve_first"
    /\ UNCHANGED <<globals, fetchVars, sessionVars, evalGlobals, route,
                   nnVars, savVars, optVars, useNN, useSavings, use2Opt,
                   alerts, stage, solRoutes, mapIdx, bestVars, distVars>>

\* main.js:250-253: the service answers with an error status. fetch resolves,
\* the body has no distances and no durations, and both globals become
\* undefined; calculateDistanceMatrix returns true. Every use of the matrices
\* is an element read m[a][b] (main.js:296, 335, 392, 503, 512), which throws
\* the same TypeError for undefined as for [], so undefined is written <<>>.
\* The first read of the call (main.js:296, 392 or 503) throws out of solveVRP.
SolveMatrixErrorStatus ==
    /\ pc = "solve_await"
    /\ distanceMatrix' = <<>>
    /\ timeMatrix' = <<>>
    /\ matrixFor' = <<>>
    /\ pc' = "solve_threw"
    /\ UNCHANGED <<destinations, numVehicles, vehicleCapacity, fuelConsumption,
                   fetchVars, requestFor, validatedFor, loads, solves, route,
                   nnVars, savVars, optVars, solveVars, bestVars, distVars>>

\* The first case file is loaded and solveVRP is called (main.js:145-150, 526).
InitSession ==
    /\ \E p \in SessionProblems :
          /\ destinations = FileDestinations(0, p.demand)
          /\ numVehicles = p.numVehicles
          /\ vehicleCapacity = p.vehicleCapacity
    /\ distanceMatrix = <<>>
    /\ timeMatrix = <<>>
    /\ fuelConsumption = Num(MaxFuel)
    /\ useNN \in BOOLEAN
    /\ useSavings \in BOOLEAN
    /\ use2Opt \in BOOLEAN
    /\ alerts = <<>>
    /\ stage = ""
    /\ solRoutes = <<>>
    /\ mapIdx = 0
    /\ colorIndex = 0
    /\ results = <<>>
    /\ pc = "solve_call"
    /\ route = <<>>
    /\ NNIdle
    /\ SavIdle
    /\ OptIdle
    /\ BestIdle
    /\ DistIdle
    /\ FetchIdle
    /\ requestFor = <<>>
    /\ matrixFor = <<>>
    /\ validatedFor = <<>>
    /\ loads = 0
    /\ solves = 1

InitFetch ==
    /\ maxAttempts \in 1..MaxAttempts
    /\ attempt = 0
    /\ delay = InitialDelay
    /\ fetchCalls = 0
    /\ sleeps = <<>>
    /\ lastResponse = ""
    /\ pc = "fetch_loop"
    /\ destinations = <<>>
    /\ numVehicles = 1
    /\ vehicleCapacity = 1
    /\ distanceMatrix = <<>>
    /\ route = <<>>
    /\ EvalGlobalsIdle
    /\ SolveIdle
    /\ NNIdle
    /\ SavIdle
    /\ OptIdle
    /\ BestIdle
    /\ DistIdle
    /\ SessionIdle

NextSession ==
    \/ NextSolve
    \/ LoadFile
    \/ SolveAgain
    \/ SolveMatrixStale
    \/ SolveMatrixErrorStatus

NextFetch ==
    \/ FetchOk
    \/ Fetch429
    \/ FetchHttpError
    \/ FetchNetworkError
    \/ FetchExhausted

Init ==
    \/ InitNN
    \/ InitSavings
    \/ InitTwoOpt
    \/ InitSolve
    \/ InitEvaluate
    \/ InitBest
    \/ InitDistance
    \/ InitFetch
    \/ InitSession

Next == NextSession \/ TwoOptReapply \/ NextDistance \/ NextFetch

Spec == Init /\ [][Next]_vars
SpecNN == InitNN /\ [][NextNN]_vars
SpecSavings == InitSavings /\ [][NextSavings]_vars
SpecConstructors == (InitNN \/ InitSavings) /\ [][NextNN \/ NextSavings]_vars
SpecTwoOpt == InitTwoOpt /\ [][NextTwoOpt]_vars
SpecSolve == InitSolve /\ [][NextSolve]_vars
SpecEvaluate == InitEvaluate /\ [][SolveEvaluate]_vars
SpecBest == InitBest /\ [][NextBest]_vars
SpecDistance == InitDistance /\ [][NextDistance]_vars
SpecFetch == InitFetch /\ [][NextFetch]_vars
SpecSession == InitSession /\ [][NextSession]_vars
\* The engine is synchronous JavaScript: a running function always takes its
\* next step.
FairSpecNN == SpecNN /\ WF_vars(NextNN)
FairSpecTwoOpt == SpecTwoOpt /\ WF_vars(NextTwoOpt)


(* ------------------------------ claims --------------------------------- *)
\* Sum of the demands of the customers of route r.
RECURSIVE RouteDemand(_)
RouteDemand(r) ==
    IF r = <<>> THEN 0
    ELSE (IF Head(r) = 0 THEN 0 ELSE destinations[Head(r)].demand)
         + RouteDemand(Tail(r))

\* Number of customers of route r.
CustomerCount(r) == Cardinality({k \in 1..Len(r) : r[k] # 0})

\* Number of places of route r that hold node c.
CountIn(r, c) == Cardinality({k \in 1..Len(r) : r[k] = c})

\* Number of places of the route list rs that hold node c.
RECURSIVE Occurrences(_, _)
Occurrences(rs, c) ==
    IF rs = <<>> THEN 0
    ELSE CountIn(Head(rs), c) + Occurrences(Tail(rs), c)

NNRunning == pc \in {"nn_for", "nn_scan", "nn_while", "nn_scan2", "nn_done"}

\* The route list a constructor has built so far (what it returns, at return).
BuiltRoutes == IF NNRunning THEN vehicleRoutes ELSE SavingsResult

\* r starts and ends at the depot, serves a customer, and has no interior 0.
DepotFramed(r) ==
    /\ Len(r) >= 3
    /\ r[1] = 0
    /\ r[Len(r)] = 0
    /\ \A k \in 2..(Len(r) - 1) : r[k] # 0

\* No reversal of a closed segment r[a..b], 1 <= a < b <= length-2, is
\* strictly shorter than r.
LocallyOptimal(r) ==
    \A a \in 1..(Len(r) - 3) : \A b \in (a + 1)..(Len(r) - 2) :
        CalculateRouteDistance(NewRoute(r, a, b)) >= CalculateRouteDistance(r)

\* C1: in nearestNeighborVRP every closed route has a demand sum within
\* vehicleCapacity, and the route under construction has currentLoad equal
\* to its demand sum and within vehicleCapacity after every append.
C1_NNCapacity ==
    /\ \A k \in 1..Len(vehicleRoutes) :
          RouteDemand(vehicleRoutes[k]) <= vehicleCapacity
    /\ pc \in {"nn_scan", "nn_scan2"} =>
          /\ currentLoad = RouteDemand(route)
          /\ currentLoad <= vehicleCapacity

\* A returned route of two or more customers fills the vehicle exactly while
\* a customer is left unvisited.
C1_Witness ==
    /\ pc = "nn_done"
    /\ Len(unvisited) > 0
    /\ \E k \in 1..Len(vehicleRoutes) :
          /\ CustomerCount(vehicleRoutes[k]) >= 2
          /\ RouteDemand(vehicleRoutes[k]) = vehicleCapacity

\* C2: every route returned by savingsAlgorithmVRP has a demand sum within
\* vehicleCapacity (stated on the problems that pass validateProblem, the
\* ones solveVRP hands to the constructor).
C2_SavingsCapacity ==
    (pc = "sav_done" /\ ValidateProblem) =>
        \A k \in 1..Len(routes) :
            RouteDemand(SavingsResult[k]) <= vehicleCapacity

\* C3: in the route list of either constructor (the route under construction
\* included) every customer index appears at most once.
C3_NoDuplicateService ==
    \A c \in 1..Len(destinations) :
        Occurrences(IF pc \in {"nn_scan", "nn_scan2"}
                    THEN Append(BuiltRoutes, route) ELSE BuiltRoutes, c) <= 1

\* nearestNeighborVRP returns two sibling routes, one of them with several
\* customers.
C3_Witness ==
    /\ pc = "nn_done"
    /\ Len(vehicleRoutes) >= 2
    /\ \E k \in 1..Len(vehicleRoutes) : CustomerCount(vehicleRoutes[k]) >= 2

\* C4: every route of either constructor's list serves at least one
\* customer, starts and ends with 0 and has no 0 in between.
C4_DepotFraming ==
    \A k \in 1..Len(BuiltRoutes) : DepotFramed(BuiltRoutes[k])

\* savingsAlgorithmVRP returns a route merged from three singletons.
C4_Witness ==
    /\ pc = "sav_done"
    /\ \E k \in 1..Len(routes) : CustomerCount(routes[k].route) >= 3

\* C5: the route twoOptImprovement holds as best, and returns, is never
\* longer than the route it was called with.
C5_TwoOptNonRegression ==
    bestRoute # <<>> =>
        /\ bestDistance = CalculateRouteDistance(bestRoute)
        /\ CalculateRouteDistance(bestRoute)
               <= CalculateRouteDistance(inputRoute)

\* twoOptImprovement returns a strictly shorter route under an asymmetric
\* matrix.
C5_Witness ==
    /\ pc = "opt_done"
    /\ CalculateRouteDistance(bestRoute) < CalculateRouteDistance(inputRoute)
    /\ \E a, b \in 0..MaxRouteCustomers :
          distanceMatrix[a][b] # distanceMatrix[b][a]

\* C6: after every pass and at return, bestRoute is a permutation of the
\* input route with the same first and last element.
C6_TwoOptPermutation ==
    pc \in {"opt_while", "opt_done"} =>
        /\ Len(bestRoute) = Len(inputRoute)
        /\ \A c \in 0..MaxRouteCustomers :
              CountIn(bestRoute, c) = CountIn(inputRoute, c)
        /\ bestRoute[1] = inputRoute[1]
        /\ bestRoute[Len(bestRoute)] = inputRoute[Len(inputRoute)]

\* A pass has ended with a best route that differs from the input.
C6_Witness ==
    /\ pc = "opt_while"
    /\ improved
    /\ bestRoute # inputRoute
    /\ Len(inputRoute) >= 5

\* C7: a locally optimal input is returned with equal distance, and the
\* second application returns the very sequence the first one returned.
C7_TwoOptIdempotent ==
    pc = "opt_done" =>
        /\ (firstResult = <<>> /\ LocallyOptimal(inputRoute)) =>
               CalculateRouteDistance(bestRoute)
                   = CalculateRouteDistance(inputRoute)
        /\ firstResult # <<>> =>
               /\ bestRoute = firstResult
               /\ CalculateRouteDistance(bestRoute)
                      = CalculateRouteDistance(firstResult)

\* The second application has returned, on a route the first one changed.
C7_Witness ==
    /\ pc = "opt_done"
    /\ firstResult # <<>>
    /\ firstResult # inputRoute

\* C8: twoOptImprovement returns (here: both applications), and in a pass
\* that has set improved the best distance is strictly below the distance of
\* the route the pass started from.
C8_TwoOptTerminates ==
    /\ <>(pc = "opt_done" /\ firstResult # <<>>)
    /\ []((pc = "opt_for" /\ improved) =>
             bestDistance < CalculateRouteDistance(route))

\* The first application returned after at least two improving passes: its
\* result is shorter than the input and no single reversal of the input.
C8_Witness ==
    /\ pc = "opt_done"
    /\ firstResult = <<>>
    /\ bestDistance < CalculateRouteDistance(inputRoute)
    /\ \A a \in 1..(Len(inputRoute) - 3) :
          \A b \in (a + 1)..(Len(inputRoute) - 2) :
              NewRoute(inputRoute, a, b) # bestRoute

\* C9: nearestNeighborVRP eventually returns (stated on the problems that
\* pass validateProblem, the ones solveVRP hands to the constructor).
C9_NNTerminates ==
    ValidateProblem => <>(pc = "nn_done")

\* C10: vehicleRoutes never holds more than numVehicles routes.
C10_NNVehicleBudget ==
    Len(vehicleRoutes) <= numVehicles

\* nearestNeighborVRP returns with the whole fleet of two or more vehicles
\* used and a customer left over.
C10_Witness ==
    /\ pc = "nn_done"
    /\ numVehicles >= 2
    /\ Len(vehicleRoutes) = numVehicles
    /\ Len(unvisited) > 0


\* C11: when savingsAlgorithmVRP returns on a problem that validateProblem
\* accepted (so numVehicles >= 1 and the total demand fits the fleet), it
\* returns at most numVehicles routes.
C11_SavingsVehicleBudget ==
    (pc = "sav_done" /\ ValidateProblem) => Len(routes) <= numVehicles


\* The savings list as built: one entry per pair i < j, each carrying
\* d(0,i) + d(0,j) - d(i,j), in non-increasing order of saving, entries of
\* equal saving in the order the nested loops generated them.
SavingsListWellFormed ==
    LET n == Len(destinations)
    IN  /\ 2 * Len(savings) = n * (n - 1)
        /\ \A a, b \in 1..n :
              a < b => Cardinality({h \in 1..Len(savings) :
                                       savings[h].i = a /\ savings[h].j = b}) = 1
        /\ \A h \in 1..Len(savings) :
              /\ savings[h].i < savings[h].j
              /\ savings[h].saving
                   = distanceMatrix[0][savings[h].i]
                     + distanceMatrix[0][savings[h].j]
                     - distanceMatrix[savings[h].i][savings[h].j]
        /\ \A h, k \in 1..Len(savings) :
              h < k =>
                 \/ savings[h].saving > savings[k].saving
                 \/ /\ savings[h].saving = savings[k].saving
                    /\ \/ savings[h].i < savings[k].i
                       \/ /\ savings[h].i = savings[k].i
                          /\ savings[h].j < savings[k].j

\* C12: once built, the savings list of savingsAlgorithmVRP is well formed
\* (one entry per pair i < j with saving d(0,i) + d(0,j) - d(i,j), sorted
\* non-increasing, ties in generation order), and the merge loop walks it
\* front to back, one entry at a time, without changing it.
C12_SavingsList ==
    /\ [](pc \in {"sav_loop", "sav_done"} => SavingsListWellFormed)
    /\ [][pc = "sav_loop" =>
             /\ savings' = savings
             /\ sIdx' \in {sIdx, sIdx + 1}
             /\ sIdx' = sIdx => pc' = "sav_done"]_vars

C12_Witness ==
    /\ pc = "sav_loop"
    /\ Len(destinations) = 3
    /\ sIdx = 2
    /\ savings[1].saving = savings[2].saving
    /\ savings[2].saving > savings[3].saving


\* C16: whenever validateProblem accepts the problem, the routes that
\* nearestNeighborVRP returns together serve every customer.
C16_NNServesAll ==
    (pc = "nn_done" /\ ValidateProblem) =>
        \A c \in 1..Len(destinations) : Occurrences(vehicleRoutes, c) >= 1


\* Every customer has the same demand d.
UniformDemand(d) ==
    \A c \in 1..Len(destinations) : destinations[c].demand = d

\* C17: on uniform demand d with k = floor(vehicleCapacity / d) >= 1
\* customers fitting one vehicle and numVehicles * k >= C, nearestNeighborVRP
\* returns exactly ceil(C / k) routes, covers every customer once and leaves
\* none unvisited.
C17_NNUniformDemand ==
    LET C == Len(destinations)
        d == destinations[1].demand
        k == vehicleCapacity \div d
    IN  (/\ pc = "nn_done"
         /\ UniformDemand(d)
         /\ k >= 1
         /\ numVehicles * k >= C)
        => /\ Len(vehicleRoutes) = (C + k - 1) \div k
           /\ unvisited = <<>>
           /\ \A c \in 1..C : Occurrences(vehicleRoutes, c) = 1

\* Three customers of demand 1, capacity 2, two vehicles: two routes.
C17_Witness ==
    /\ pc = "nn_done"
    /\ Len(destinations) = 3
    /\ UniformDemand(1)
    /\ vehicleCapacity = 2
    /\ numVehicles = 2
    /\ Len(vehicleRoutes) = 2


\* Exactly two customers whose combined demand fits one vehicle, and a fleet
\* of one.
TwoCustomersOneVehicle ==
    /\ Len(destinations) = 2
    /\ destinations[1].demand + destinations[2].demand <= vehicleCapacity
    /\ numVehicles = 1

\* C18: with exactly two customers whose combined demand fits the capacity
\* and numVehicles = 1, savingsAlgorithmVRP returns the single route
\* [0, 1, 2, 0], whose distance is d(0,1) + d(1,2) + d(2,0).
C18_SavingsTwoCustomers ==
    (pc = "sav_done" /\ TwoCustomersOneVehicle) =>
        /\ SavingsResult = <<<<0, 1, 2, 0>>>>
        /\ CalculateRouteDistance(SavingsResult[1])
             = distanceMatrix[0][1] + distanceMatrix[1][2] + distanceMatrix[2][0]

\* The merge happened with the vehicle filled exactly, on a pair whose saving
\* is not positive.
C18_Witness ==
    /\ pc = "sav_done"
    /\ TwoCustomersOneVehicle
    /\ destinations[1].demand + destinations[2].demand = vehicleCapacity
    /\ savings[1].saving <= 0
    /\ Len(routes) = 1
    /\ routes[1].route = <<0, 1, 2, 0>>


\* Sum of calculateRouteDistance over the routes rs.
RECURSIVE SumOfDistances(_)
SumOfDistances(rs) ==
    IF rs = <<>> THEN 0
    ELSE CalculateRouteDistance(Head(rs)) + SumOfDistances(Tail(rs))

\* Sum of calculateRouteTime over the routes rs.
RECURSIVE SumOfTimes(_)
SumOfTimes(rs) ==
    IF rs = <<>> THEN 0
    ELSE CalculateRouteTime(Head(rs)) + SumOfTimes(Tail(rs))

\* C13: for every list of routes, the solution evaluateSolution returns has
\* distance equal to the sum of calculateRouteDistance over the routes, time
\* equal to the sum of calculateRouteTime, and routes equal to the list
\* passed in, which the call leaves unchanged.
C13_EvaluatorAdditivity ==
    [][pc = "solve_eval" =>
          LET result == results'[Len(results')]
          IN  /\ Len(results') = Len(results) + 1
              /\ result.distance = SumOfDistances(solRoutes)
              /\ result.time = SumOfTimes(solRoutes)
              /\ result.routes = solRoutes
              /\ solRoutes' = solRoutes]_vars

\* Two routes were evaluated, each with a distance and a time of its own.
C13_Witness ==
    /\ pc \in {"solve_second", "best_call"}
    /\ Len(results) = 1
    /\ Len(solRoutes) = 2
    /\ CalculateRouteDistance(solRoutes[1]) > 0
    /\ CalculateRouteDistance(solRoutes[2]) > 0
    /\ CalculateRouteTime(solRoutes[1]) # CalculateRouteDistance(solRoutes[1])
    /\ results[1].distance = CalculateRouteDistance(solRoutes[1])
                             + CalculateRouteDistance(solRoutes[2])
    /\ results[1].time > CalculateRouteTime(solRoutes[2])

\* C14: on a non-empty list of solutions the reduce of bestResult /
\* bestSolution returns a member of the list whose distance is minimal, and
\* among the solutions of that distance the one that comes first.
C14_BestSelection ==
    pc = "best_done" =>
        \E k \in 1..Len(results) :
            /\ bestResult = <<results[k]>>
            /\ \A h \in 1..Len(results) :
                  results[h].distance >= results[k].distance
            /\ \A h \in 1..(k - 1) :
                  results[h].distance > results[k].distance

\* Three solutions, the second and third tied at the minimum: the second is
\* returned.
C14_Witness ==
    /\ pc = "best_done"
    /\ Len(results) = 3
    /\ results[2].distance < results[1].distance
    /\ results[3].distance = results[2].distance
    /\ bestResult = <<results[2]>>

\* C15: when the total demand exceeds numVehicles x vehicleCapacity, a solve
\* with a heuristic selected surfaces the warning and still runs the selected
\* constructors, ending with at least one evaluated solution.
C15_InfeasibleAdvisory ==
    (/\ pc \in {"solve_returned", "best_done"}
     /\ TotalDemand(destinations) > numVehicles * vehicleCapacity
     /\ useNN \/ useSavings)
    => /\ \E k \in 1..Len(alerts) : alerts[k] = DemandWarning
       /\ Len(results) >= 1

\* C19: calculateRouteEnergy returns (route distance / 100) x fuelConsumption
\* (here in hundredths of a litre), and 0 for every route when
\* fuelConsumption is absent from the loaded file or is zero, so the energy
\* of a solution evaluated on such a file is 0 as well.
C19_FuelOptional ==
    Len(results) >= 1 =>
        /\ \A k \in 1..Len(results[1].routes) :
              LET r == results[1].routes[k]
              IN  /\ fuelConsumption.kind = "number" =>
                         CalculateRouteEnergy(r)
                           = Num(CalculateRouteDistance(r) * fuelConsumption.val)
                  /\ fuelConsumption \in {Undefined, Num(0)} =>
                         CalculateRouteEnergy(r) = Num(0)
        /\ fuelConsumption \in {Undefined, Num(0)} =>
              results[1].energy = Num(0)

UnvisitedCustomers ==
    {k \in 1..Len(destinations) :
        \E h \in 1..Len(unvisited) : unvisited[h] = destinations[k]}

\* The unvisited customers whose demand fits the load left on the vehicle.
FeasibleCustomers ==
    {k \in UnvisitedCustomers :
        currentLoad + destinations[k].demand <= vehicleCapacity}

\* C21: every customer nearestNeighborVRP appends to a route is, when chosen,
\* an unvisited customer that fits the remaining capacity and is nearest to
\* the route's last node among all such customers; of equally near ones the
\* earliest in input order is taken; it leaves unvisited and becomes the last
\* node.
C21_NNGreedyStep ==
    [][(pc \in {"nn_scan", "nn_scan2"} /\ pc' = pc) =>
          LET c == route'[Len(route')]
          IN  /\ route' = Append(route, c)
              /\ currentPos = route[Len(route)]
              /\ c \in FeasibleCustomers
              /\ \A k \in FeasibleCustomers :
                    \/ distanceMatrix[currentPos][k] > distanceMatrix[currentPos][c]
                    \/ /\ distanceMatrix[currentPos][k]
                            = distanceMatrix[currentPos][c]
                       /\ k >= c
              /\ UnvisitedCustomers' = UnvisitedCustomers \ {c}
              /\ currentPos' = c
              /\ currentLoad' = currentLoad + destinations[c].demand]_vars

\* A second customer was appended where a later customer was equally near and
\* fitted as well.
C21_Witness ==
    /\ pc = "nn_scan"
    /\ Len(route) = 3
    /\ \E k \in UnvisitedCustomers :
          /\ k > route[3]
          /\ distanceMatrix[route[2]][k] = distanceMatrix[route[2]][route[3]]
          /\ currentLoad + destinations[k].demand
               <= vehicleCapacity + destinations[route[3]].demand


\* The customers of a depot-framed route, in order.
CustomersOf(r) == SubSeq(r, 2, Len(r) - 1)

\* The pairs <<a, b>> of different route records that pair (ci, cj) may join:
\* a has ci as its last customer, b has cj as its first, and the demands of
\* both fit one vehicle.
Joinable(ci, cj) ==
    {ab \in (1..Len(routes)) \X (1..Len(routes)) :
        /\ ab[1] # ab[2]
        /\ routes[ab[1]].route[Len(routes[ab[1]].route) - 1] = ci
        /\ routes[ab[2]].route[2] = cj
        /\ RouteDemand(routes[ab[1]].route) + RouteDemand(routes[ab[2]].route)
             <= vehicleCapacity}

\* C22: when savingsAlgorithmVRP processes pair (i, j), i < j, with more
\* routes than numVehicles, it merges if and only if a route ending at i and
\* a different route starting at j exist whose loads fit the capacity; the
\* merge replaces the two by the first route's customers followed by the
\* second's, both in unchanged order, and touches no other route.
C22_SavingsMergeRule ==
    [][(pc = "sav_loop" /\ pc' = "sav_loop") =>
          LET ci == savings[sIdx + 1].i
              cj == savings[sIdx + 1].j
          IN  /\ Len(routes) > numVehicles
              /\ ci < cj
              /\ (routes' # routes) <=> (Joinable(ci, cj) # {})
              /\ Joinable(ci, cj) # {} =>
                    \E ab \in Joinable(ci, cj) :
                       /\ Len(routes') = Len(routes) - 1
                       /\ {routes'[k].route : k \in 1..Len(routes')}
                            = {routes[k].route :
                                  k \in (1..Len(routes)) \ {ab[1], ab[2]}}
                              \cup {<<0>> \o CustomersOf(routes[ab[1]].route)
                                         \o CustomersOf(routes[ab[2]].route)
                                         \o <<0>>}]_vars

\* Three customers, one vehicle: the whole list was processed with one merge
\* made and two pairs passed over.
C22_Witness ==
    /\ pc = "sav_loop"
    /\ Len(destinations) = 3
    /\ numVehicles = 1
    /\ sIdx = 3
    /\ Len(routes) = 2
    /\ TotalDemand(destinations) <= vehicleCapacity


\* C23: savingsAlgorithmVRP performs no merge while the route count is at or
\* below numVehicles; hence it returns at least min(customer count,
\* numVehicles) routes, and with customer count <= numVehicles exactly the
\* singleton routes [0,k,0], k = 1..N, in input order.
C23_SavingsStopsAtBudget ==
    /\ [][(pc = "sav_loop" /\ routes' # routes) =>
             Len(routes) > numVehicles]_vars
    /\ [](pc = "sav_done" =>
             LET n == Len(destinations)
             IN  /\ Len(routes) >= (IF n < numVehicles THEN n ELSE numVehicles)
                 /\ n <= numVehicles =>
                       SavingsResult = [k \in 1..n |-> <<0, k, 0>>])

\* The loop broke at the budget with savings left over and room on the
\* vehicles for a further merge.
C23_Witness ==
    /\ pc = "sav_done"
    /\ Len(destinations) = 3
    /\ numVehicles = 2
    /\ Len(routes) = 2
    /\ sIdx < Len(savings)
    /\ TotalDemand(destinations) <= vehicleCapacity


\* The route r with the closed segment r[a..b] (0-based positions) reversed.
Reversal(r, a, b) ==
    [k \in 1..Len(r) |-> IF a + 1 <= k /\ k <= b + 1 THEN r[a + b + 2 - k]
                         ELSE r[k]]

\* The position pairs (i, j) a pass over r scans, 1 <= i < j <= length - 2.
ScanPairs(r) ==
    {p \in (1..(Len(r) - 3)) \X (2..(Len(r) - 2)) : p[1] < p[2]}

\* p comes before q in the scan order of the nested loops.
ScannedBefore(p, q) ==
    p[1] < q[1] \/ (p[1] = q[1] /\ p[2] < q[2])

\* Distance of the candidate of r at pair p.
CandidateDistance(r, p) == CalculateRouteDistance(Reversal(r, p[1], p[2]))

\* Some candidate of r is strictly shorter than r.
HasImprovingCandidate(r) ==
    \E p \in ScanPairs(r) : CandidateDistance(r, p) < CalculateRouteDistance(r)

\* The first candidate of r, in scan order, that is strictly shorter than r.
FirstImproving(r) ==
    LET p == CHOOSE p \in ScanPairs(r) :
                 /\ CandidateDistance(r, p) < CalculateRouteDistance(r)
                 /\ \A q \in ScanPairs(r) :
                       ScannedBefore(q, p) =>
                          CandidateDistance(r, q) >= CalculateRouteDistance(r)
    IN  Reversal(r, p[1], p[2])

\* The shortest candidate of r, the first in scan order among equally short
\* ones.
BestOfPass(r) ==
    LET p == CHOOSE p \in ScanPairs(r) :
                 \A q \in ScanPairs(r) :
                    /\ CandidateDistance(r, p) <= CandidateDistance(r, q)
                    /\ ScannedBefore(q, p) =>
                          CandidateDistance(r, q) > CandidateDistance(r, p)
    IN  Reversal(r, p[1], p[2])

\* A pass of twoOptImprovement ends having found an improvement.
ImprovingPassEnds == pc = "opt_for" /\ pc' = "opt_while" /\ improved

\* C24 as stated: the route an improving pass hands to the next pass is the
\* first candidate in (i, j) scan order that is strictly shorter than the
\* pass's starting route.
C24_TwoOptFirstImprovement ==
    [][ImprovingPassEnds => route' = FirstImproving(route)]_vars

\* C24 amended: the route an improving pass hands to the next pass is a
\* candidate of the pass's starting route that is strictly shorter than it
\* and no longer than any other candidate of the pass.
C24_TwoOptShortestOfPass ==
    [][ImprovingPassEnds =>
          /\ \E p \in ScanPairs(route) : route' = Reversal(route, p[1], p[2])
          /\ CalculateRouteDistance(route') < CalculateRouteDistance(route)
          /\ \A q \in ScanPairs(route) :
                CalculateRouteDistance(route') <= CandidateDistance(route, q)]_vars

\* The first pass over the input adopted its shortest candidate although an
\* earlier candidate in scan order was already shorter than the input.
C24_Witness ==
    /\ pc = "opt_while"
    /\ improved
    /\ HasImprovingCandidate(inputRoute)
    /\ route = BestOfPass(inputRoute)
    /\ route # FirstImproving(inputRoute)
    /\ CalculateRouteDistance(route)
         < CalculateRouteDistance(FirstImproving(inputRoute))

\* C25: during a pass of twoOptImprovement the route the candidates are
\* built from stays fixed and every newly kept best route is a single-segment
\* reversal of it; the route adopted at the end of an improving pass is the
\* shortest of all candidates of the pass, the first in scan order on ties.
C25_TwoOptBestOfPass ==
    /\ [][(pc = "opt_for" /\ pc' = "opt_for") =>
             /\ route' = route
             /\ bestRoute' # bestRoute =>
                   /\ bestRoute' = Reversal(route, i, j)
                   /\ <<i, j>> \in ScanPairs(route)]_vars
    /\ [][ImprovingPassEnds => route' = BestOfPass(route)]_vars

\* A second pass adopted a candidate that ties with a later candidate of that
\* pass.
C25_Witness ==
    /\ pc = "opt_while"
    /\ improved
    /\ route # inputRoute
    /\ CalculateRouteDistance(route) < CalculateRouteDistance(inputRoute)
    /\ route # BestOfPass(inputRoute)
    /\ \E r \in FramedRoutes(MaxRouteCustomers) :
          /\ HasImprovingCandidate(r)
          /\ route = BestOfPass(r)
          /\ \E q \in ScanPairs(r) :
                /\ Reversal(r, q[1], q[2]) # route
                /\ CandidateDistance(r, q) = CalculateRouteDistance(route)

\* No reversal of a closed segment of r is strictly shorter than r.
NoShorterReversal(r) ==
    \A p \in ScanPairs(r) :
        CandidateDistance(r, p) >= CalculateRouteDistance(r)

\* C26: the route twoOptImprovement returns is a local optimum: no reversal
\* of a closed segment R[i..j], 1 <= i < j <= length-2, is strictly shorter;
\* hence an input that admits a strictly shortening reversal comes back
\* strictly shorter.
C26_TwoOptLocalOptimum ==
    pc = "opt_done" =>
        /\ NoShorterReversal(bestRoute)
        /\ ~NoShorterReversal(inputRoute) =>
              CalculateRouteDistance(bestRoute)
                < CalculateRouteDistance(inputRoute)

\* A route of four customers that a reversal shortens was returned changed.
C26_Witness ==
    /\ pc = "opt_done"
    /\ firstResult = <<>>
    /\ Len(inputRoute) = 6
    /\ ~NoShorterReversal(inputRoute)
    /\ bestRoute # inputRoute
    /\ NoShorterReversal(bestRoute)


\* ---------------------------------------------------------------------------
\* C28
\* ---------------------------------------------------------------------------

StrictlyIncreasing(s) == \A k \in 1..(Len(s) - 1) : s[k] < s[k + 1]

SumOfDemands(cs) == RouteDemand(<<0>> \o cs \o <<0>>)

RecordConsistent(r) ==
    LET cs == CustomersOf(r.route)
    IN  /\ Len(cs) >= 1
        /\ StrictlyIncreasing(cs)
        /\ r.ends.start = cs[1]
        /\ r.ends.end = cs[Len(cs)]
        /\ r.load = SumOfDemands(cs)

\* C28: at every step of savingsAlgorithmVRP and at its return, the customers
\* of every route are in strictly increasing index order, and each record's
\* ends.start, ends.end and load are the route's first customer, its last
\* customer and the sum of its customers' demands.
C28_SavingsRecordsConsistent ==
    pc \in {"sav_loop", "sav_done"} =>
        /\ \A k \in 1..Len(routes) : RecordConsistent(routes[k])
        /\ pc = "sav_done" =>
               \A k \in 1..Len(SavingsResult) :
                   StrictlyIncreasing(CustomersOf(SavingsResult[k]))

\* C28 witness: the algorithm has returned a route that two merges built.
C28_Witness ==
    /\ pc = "sav_done"
    /\ \E k \in 1..Len(routes) :
           /\ Len(routes[k].route) = 5
           /\ RecordConsistent(routes[k])
           /\ SavingsResult[k] = routes[k].route


\* ---------------------------------------------------------------------------
\* C29
\* ---------------------------------------------------------------------------

FiniteMatrix ==
    \A a \in DOMAIN distanceMatrix : \A b \in DOMAIN distanceMatrix[a] :
        distanceMatrix[a][b] \in 0..MaxDist

InSecondLoop == pc = "nn_scan2"

C27_HttpErrorNotRetried ==
    /\ [][(fetchCalls' = fetchCalls + 1 /\ lastResponse' = "http_error") =>
            /\ pc' = "fetch_threw"
            /\ sleeps' = sleeps]_vars
    /\ [][(lastResponse = "http_error" /\ pc = "fetch_loop") =>
            fetchCalls' = fetchCalls]_vars
    /\ [](fetchCalls <= maxAttempts)


\* ---------------------------------------------------------------------------
\* C30
\* ---------------------------------------------------------------------------

\* solveVRP calls a constructor (main.js:565, 580).
ConstructorCalled ==
    \/ pc = "solve_first" /\ pc' = "nn_for"
    \/ pc = "solve_second" /\ pc' = "sav_start"

\* distanceMatrix has a row and a column for the depot and for every customer.
MatrixDimensionFits ==
    /\ DOMAIN distanceMatrix = 0..Len(destinations)
    /\ \A a \in DOMAIN distanceMatrix :
           DOMAIN distanceMatrix[a] = 0..Len(destinations)

\* distanceMatrix was computed for the customers that are current, and they
\* are the problem validateProblem accepted.
MatrixCurrent ==
    /\ MatrixDimensionFits
    /\ matrixFor = destinations
    /\ validatedFor = <<destinations, numVehicles, vehicleCapacity>>

\* C30: whenever solveVRP runs a constructor, distanceMatrix is an
\* (N+1) x (N+1) matrix computed for the depot and destinations that are
\* current at that moment, the same that passed validateProblem; this holds
\* for every interleaving, including a failed or error-status matrix request
\* and a loadFromJSONFile that completes while the request is pending.
C30_ConstructorSeesCurrentMatrix ==
    [][ConstructorCalled => MatrixCurrent]_vars

=============================================================================
